---------------------------- MODULE Spec2Model ----------------------------
(***************************************************************************)
(* A model of the reviewgen pipeline (src/reviewgen): citation mapping,    *)
(* outline planning, section composition with a pluggable generation       *)
(* backend, and document assembly.                                         *)
(*                                                                         *)
(* Text is modelled as a sequence of tokens.  A token is a word (a run of  *)
(* characters without whitespace, written as a TLA+ string), a single      *)
(* whitespace character, or a single punctuation character where the code  *)
(* splits on it (";" in an outline spec, "/" in a path).  Concatenation of *)
(* Python strings is \o, a list of strings is a sequence of token          *)
(* sequences, None is the model value None.                                *)
(***************************************************************************)
EXTENDS Integers, Sequences, FiniteSets, Bags, TLC

VARIABLES
    unit,           \* the part of the program this behaviour exercises
    \* --- citations.py exercised on its own
    paths,          \* the argument of map_sources
    count,          \* the argument of rotate_citations
    mapping,        \* the dict map_sources returned
    rotated,        \* the list rotate_citations returned
    cpc,            \* "start", "mapped" (map_sources returned), "rotated"
    \* --- outline.py exercised on its own
    ocall,          \* the arguments of generate_outline
    okeywords,      \* the caller's keyword list object, as the callee leaves it
    oret,           \* the outcomes of the calls made so far, oldest first
    \* --- one generation run: cli.run or a direct call of generate_review
    cfg,            \* the ReviewConfig of a command-line run
    backend,        \* what the remote service behind llm_client can do at a call
    pc,             \* where the run stands
    raised,         \* the exception that ended the run: [cls, by]
    args,           \* the keyword arguments of generate_review
    frame,          \* the locals of generate_review
    calls,          \* the llm_client.generate calls made so far, oldest first
    content,        \* the Markdown the run returned
    \* --- a function of preprocess.py or utils.py exercised on its own
    fcall,          \* the arguments of the function called
    fret            \* what the calls made so far returned, oldest first

citvars == <<paths, count, mapping, rotated, cpc>>
outvars == <<ocall, okeywords, oret>>
runvars == <<cfg, backend, pc, raised, args, frame, calls, content>>
funvars == <<fcall, fret>>
vars == <<unit, citvars, outvars, runvars, funvars>>

\* None where a string (a token sequence) is expected, and where an exception
\* class name is expected
NoneStr == <<"<None>">>
None == "None"

-----------------------------------------------------------------------------
(* Bounds of the model *)

MaxPaths == 3       \* longest list of paths given to map_sources
MaxCount == 4       \* largest count given to rotate_citations
MaxSpecLen == 5     \* longest custom outline spec, in characters
MaxKeywords == 5    \* longest keyword list given to generate_outline
MaxCalls == 2       \* calls of generate_outline with the same arguments
MaxTexts == 3       \* longest list of texts given to deduplicate
MaxTextLen == 6     \* longest text given to segment_text, in characters
MaxLenArg == 6      \* largest max_len given to segment_text
MaxWords == 7       \* most words of a paragraph given to wrap_paragraph
MaxSpecifiers == 2  \* longest list of path specifiers given to load_texts

-----------------------------------------------------------------------------
(* Python string and list primitives, on token sequences *)

\* "".join(ss[lo..hi]) and "".join(ss): the items of ss one after the other.
\* The items are joined by halves, so that the depth of the evaluation grows
\* with the logarithm of their number.
RECURSIVE FlattenBetween(_, _, _)
FlattenBetween(ss, lo, hi) ==
    IF lo >= hi THEN (IF lo = hi THEN ss[lo] ELSE <<>>)
    ELSE FlattenBetween(ss, lo, (lo + hi) \div 2)
         \o FlattenBetween(ss, (lo + hi) \div 2 + 1, hi)

Flatten(ss) == FlattenBetween(ss, 1, Len(ss))

\* sep.join(items): the items with sep between each two
Join(items, sep) ==
    Flatten([i \in 1..(2 * Len(items) - 1) |->
                IF i % 2 = 1 THEN items[(i + 1) \div 2] ELSE sep])

\* s[:n] for n >= 0
Take(s, n) == SubSeq(s, 1, IF n < Len(s) THEN n ELSE Len(s))

\* the parts of s between the places cuts[1] < cuts[2] < ... , a cut taking
\* `gap` tokens away: part k runs from behind cut k-1 to before cut k
PartsAt(s, cuts, gap) ==
    [k \in 1..(Len(cuts) + 1) |->
        SubSeq(s, IF k = 1 THEN 1 ELSE cuts[k - 1] + gap,
                  IF k > Len(cuts) THEN Len(s) ELSE cuts[k] - 1)]

\* s.split(sep) for a one-character separator: always at least one part
SplitOn(s, sep) ==
    PartsAt(s, SelectSeq([i \in 1..Len(s) |-> i], LAMBDA i : s[i] = sep), 1)

Whitespace == {" ", "\n", "\t"}

\* s.lstrip(), s.rstrip(), s.strip()
RECURSIVE LStrip(_)
LStrip(s) == IF s # <<>> /\ Head(s) \in Whitespace THEN LStrip(Tail(s)) ELSE s
RECURSIVE RStrip(_)
RStrip(s) ==
    IF s # <<>> /\ s[Len(s)] \in Whitespace THEN RStrip(SubSeq(s, 1, Len(s)-1)) ELSE s
\* a slip in the trimming: only the left side is stripped
StripLeftOnly(s) == LStrip(s)
Strip(s) == RStrip(LStrip(s))

\* str(n) for n >= 0, one token per decimal digit
Digit(d) == CASE d = 0 -> "0" [] d = 1 -> "1" [] d = 2 -> "2" [] d = 3 -> "3"
              [] d = 4 -> "4" [] d = 5 -> "5" [] d = 6 -> "6" [] d = 7 -> "7"
              [] d = 8 -> "8" [] d = 9 -> "9"
RECURSIVE IntToStr(_)
IntToStr(n) == IF n < 10 THEN <<Digit(n)>> ELSE IntToStr(n \div 10) \o <<Digit(n % 10)>>

\* True when pat occurs in s as a contiguous run of tokens ("pat in s")
Contains(s, pat) ==
    \E i \in 0..(Len(s) - Len(pat)) : SubSeq(s, i+1, i+Len(pat)) = pat

\* An insertion-ordered dict is a sequence of <<key, value>> pairs.
DictKeys(d) == [i \in 1..Len(d) |-> d[i][1]]
DictHas(d, k) == \E i \in 1..Len(d) : d[i][1] = k
\* d[k] = v : replaces the value of an existing key in place, else appends
DictSet(d, k, v) ==
    IF DictHas(d, k)
    THEN [i \in 1..Len(d) |-> IF d[i][1] = k THEN <<k, v>> ELSE d[i]]
    ELSE Append(d, <<k, v>>)

-----------------------------------------------------------------------------
(* citations.py *)

\* pathlib: Path(p).name, the final component of p ("" when there is none);
\* empty components and "." components are dropped when the path is parsed.
PathParts(p) == SelectSeq(SplitOn(p, "/"), LAMBDA c : c # <<>> /\ c # <<".">>)
PathName(p) == LET parts == PathParts(p)
               IN  IF parts = <<>> THEN <<>> ELSE parts[Len(parts)]

\* a slip in the label numbering: labels counted from 0
LabelFromZero(idx) == <<"[S">> \o IntToStr(idx - 1) \o <<"]">>

\* label = f"[S{idx}]"
Label(idx) == <<"[S">> \o IntToStr(idx) \o <<"]">>

\* def map_sources(paths): the loop over enumerate(paths, start=1)
RECURSIVE MapSourcesFrom(_, _, _)
MapSourcesFrom(ps, idx, m) ==
    IF idx > Len(ps) THEN m
    ELSE MapSourcesFrom(ps, idx + 1, DictSet(m, Label(idx), PathName(ps[idx])))

map_sources(ps) == MapSourcesFrom(ps, 1, <<>>)

\* a slip in the rotation: the index is clamped to the last label, not wrapped
rotate_citations_clamped(m, cnt) ==
    LET labels == DictKeys(m)
    IN  IF labels = <<>> THEN <<>>
        ELSE [j \in 1..(IF cnt > 0 THEN cnt ELSE 0) |->
                 labels[IF j > Len(labels) THEN Len(labels) ELSE j]]

\* def rotate_citations(mapping, count); range(count) is empty for count <= 0
rotate_citations(m, cnt) ==
    LET labels == DictKeys(m)
    IN  IF labels = <<>> THEN <<>>
        ELSE [j \in 1..(IF cnt > 0 THEN cnt ELSE 0) |->
                 labels[((j - 1) % Len(labels)) + 1]]

\* def format_references(mapping)
format_references(m) ==
    Join([i \in 1..Len(m) |-> m[i][1] \o <<" ">> \o m[i][2]], <<"\n">>)

-----------------------------------------------------------------------------
(* outline.py *)

\* str.lower(), on the mode values the model draws
Lower(m) == CASE m = "Custom" -> "custom"
              [] m = "CUSTOM" -> "custom"
              [] m = "TIMELINE" -> "timeline"
              [] m = "School" -> "school"
              [] OTHER -> m

\* not custom_outline: None and "" are falsy
Falsy(x) == x = NoneStr \/ x = <<>>

\* [section.strip() for section in custom_outline.split(";") if section.strip()]
CustomSections(custom_outline) ==
    LET parts == SplitOn(custom_outline, ";")
        stripped == [i \in 1..Len(parts) |-> Strip(parts[i])]
    IN  SelectSeq(stripped, LAMBDA t : t # <<>>)

\* the body list literal chosen by the mode
ModeBody(m) ==
    CASE m = "timeline" ->
           << <<"Early", " ", "stage">>, <<"Middle", " ", "stage">>,
              <<"Recent", " ", "trends">> >>
      [] m = "school" ->
           << <<"Methodological", " ", "schools">>, <<"Representative", " ", "work">>,
              <<"Key", " ", "debates">> >>
      [] m = "application" ->
           << <<"Applications">>, <<"Case", " ", "studies">>, <<"Impact">> >>
      [] OTHER -> << <<"Key", " ", "themes">> >>

\* a slip in the slice: three keywords, as _build_bullets takes
KeywordSectionThree(keywords) ==
    <<"Cross-", "cutting", " ", "themes:", " ">> \o Join(Take(keywords, 3), <<",", " ">>)

\* f"Cross-cutting themes: {', '.join(keywords[:4])}"
KeywordSection(keywords) ==
    <<"Cross-", "cutting", " ", "themes:", " ">> \o Join(Take(keywords, 4), <<",", " ">>)

OutlineTail ==
    << <<"Comparative", " ", "Analysis">>, <<"Challenges", " ", "and", " ", "Limitations">>,
       <<"Future", " ", "Directions">>, <<"References">> >>

\* def generate_outline(mode, topic, keywords, custom_outline=None).
\* The outcome is [raised, value, keywords]: the exception raised (None when the
\* call returns), the list returned, and the caller's keyword list as the call
\* leaves it (the code only slices it; body.append changes the fresh body list).
generate_outline(mode, topic, keywords, custom_outline) ==
    LET m == Lower(mode) IN
    IF m = "custom"
    THEN IF Falsy(custom_outline)
         THEN [raised |-> "ValueError", value |-> <<>>, keywords |-> keywords]
         ELSE [raised |-> None, value |-> CustomSections(custom_outline),
               keywords |-> keywords]
    ELSE LET body == ModeBody(m)
             body2 == IF keywords # <<>> THEN Append(body, KeywordSection(keywords))
                      ELSE body
         IN  [raised |-> None,
              value |-> << <<"Introduction">> >> \o body2 \o OutlineTail,
              keywords |-> keywords]

-----------------------------------------------------------------------------
(* utils.py: wrap_paragraph, i.e. textwrap.fill(text, width=90) *)

WrapWidth == 90

\* len(token): the number of characters the token stands for.  The literal
\* Chinese texts are named by an ASCII gloss and counted as the source spells
\* them; any other token counts one character per letter, input words (topic,
\* keywords, names) being listed with the literals.
TokLen(t) ==
    CASE t \in {"##", "<emdash><emdash>", ">>zh.fullstop", "AI", "No", "[S", "if", "it",
             "of", "zh.for"} -> 2
      [] t \in {"For", "Key", "and", "for", "the", "use"} -> 3
      [] t \in {"Body", "Case", "Core", "Test", "This", "deep", "open", "work",
             "zh.this.section.focuses.on"} -> 4
      [] t \in {"(~120", "Early", "Topic", "Write", "data,", "stage", "words", "work,",
             "zh.core.topic:", "zh.in.the.field.of<<", "zh.key.concepts:"} -> 5
      [] t \in {"Cross-", "Future", "Impact", "Middle", "Recent", "Review", "Topic:",
             "cases,", "covers", "focus:", "marker", "models", "prose.", "review",
             "themes", "trends", "within", "words)"} -> 6
      [] t \in {"Chinese", "English", "Include", "Section", "Source_", "_Date_:", "_Lang_:",
             "_Length", "_Mode_:", "concise", "cutting", "debates", "general",
             "issues.", "schools", "section", "sources", "student", "studies",
             "themes:", "used.**", "zh.readers,we.emphasise"} -> 7
      [] t \in {"Analysis", "Section:", "advances", "citation", "external", "learning",
             "methods,", "readers,", "section.", "target_:"} -> 8
      [] t \in {"**zh.no.external.material.used", "Audience:", "Emphasize", "Generated",
             "Keywords:", "Language:", "concepts:", "evolution", "paragraph",
             "practical", "provided:"} -> 9
      [] t \in {"Challenges", "Directions", "References", "evolution,", "highlights",
             "literature"} -> 10
      [] t \in {"Comparative", "Limitations", "_Audience_:", "method/data", "summarizing"} ->
             11
      [] t \in {"Applications", "Introduction", "applications"} -> 12
      [] t \in {"applications,"} -> 13
      [] t \in {"Methodological", "Representative", "representative",
             "zh.s.evolution,representative.work.and.use.cases",
             "zh.trends.contributions:methods.data.applications"} -> 14
      [] t \in {"zh.generated.by.local.rules.no.external.LLM.call."} -> 19
      [] t \in {"Trends/contributions:"} -> 21
      [] t \in {"zh.also.summarises.method.and.data.advances.and.open.issues."} -> 26
      [] OTHER -> 1

\* len(s), in characters: the size of the bag that holds each token of s as
\* many times as it has characters
TextLen(s) == BagCardinality([i \in 1..Len(s) |-> TokLen(s[i])])

\* a token after which textwrap may break a word: it ends in a hyphen
EndsInHyphen(t) == t \in {"Cross-", "-"}

\* textwrap._split: the text cut into chunks, each a run of whitespace (given as
\* that many spaces, replace_whitespace) or a piece of a word; a word is a run of
\* tokens without whitespace, cut after each hyphen that a token follows.
\* StartsChunk: a chunk starts at token i of s
StartsChunk(s, i) ==
    \/ i = 1
    \/ (s[i - 1] \in Whitespace) # (s[i] \in Whitespace)
    \/ s[i - 1] \notin Whitespace /\ s[i] \notin Whitespace /\ EndsInHyphen(s[i - 1])

SplitChunks(s) ==
    LET spaced == [i \in 1..Len(s) |-> IF s[i] \in Whitespace THEN " " ELSE s[i]]
        starts == SelectSeq([i \in 1..Len(s) |-> i], LAMBDA i : StartsChunk(s, i))
    IN  IF s = <<>> THEN <<>> ELSE PartsAt(spaced, Tail(starts), 0)

IsSpaceChunk(c) == c # <<>> /\ c[1] = " "

\* How many items a loop takes that takes the items of a sequence in order
\* while their lengths add up to at most `room`: as many as there are prefixes
\* of the sequence that fit.  Every item has at least one character, so no
\* more than `room` items fit.
FitCount(items, room) ==
    LET most == IF room < 0 THEN 0 ELSE IF room < Len(items) THEN room ELSE Len(items)
        lens == SubSeq([i \in 1..Len(items) |-> TextLen(items[i])], 1, most)
    IN  Cardinality({k \in 1..most : BagCardinality(SubSeq(lens, 1, k)) <= room})

\* the longest prefix of chunk c that fits in `room` characters
FitPrefix(c, room) == SubSeq(c, 1, FitCount([i \in 1..Len(c) |-> <<c[i]>>], room))

\* the inner loop of textwrap._wrap_chunks: chunks taken while they fit
TakeFitting(chunks, room) == FitCount(chunks, room)

\* textwrap._wrap_chunks with the defaults (drop_whitespace, break_long_words):
\* the lines of the wrapped text
RECURSIVE WrapChunks(_, _, _)
WrapChunks(chunks, width, nlines) ==
    IF chunks = <<>> THEN <<>>
    ELSE
    LET cs == IF IsSpaceChunk(Head(chunks)) /\ nlines > 0 THEN Tail(chunks) ELSE chunks
        k == TakeFitting(cs, width)
        taken == SubSeq(cs, 1, k)
        rest == SubSeq(cs, k + 1, Len(cs))
        room == width - TextLen(Flatten(taken))
        long == rest # <<>> /\ TextLen(Head(rest)) > width
        \* _handle_long_word; a piece is cut between tokens, which is exact for
        \* text given one character per token
        fit == IF long THEN FitPrefix(Head(rest), room) ELSE <<>>
        piece == IF long /\ fit = <<>> /\ taken = <<>> THEN <<Head(rest)[1]>> ELSE fit
        line1 == IF piece # <<>> THEN Append(taken, piece) ELSE taken
        rest1 == IF piece = <<>> THEN rest
                 ELSE IF Len(piece) = Len(Head(rest)) THEN Tail(rest)
                 ELSE <<SubSeq(Head(rest), Len(piece) + 1, Len(Head(rest)))>> \o Tail(rest)
        line == IF line1 # <<>> /\ IsSpaceChunk(line1[Len(line1)])
                THEN SubSeq(line1, 1, Len(line1) - 1) ELSE line1
    IN  IF cs = <<>> THEN <<>>
        ELSE IF line # <<>>
             THEN <<Flatten(line)>> \o WrapChunks(rest1, width, nlines + 1)
             ELSE WrapChunks(rest1, width, nlines)

\* textwrap.fill
TextwrapFill(text, width) == Join(WrapChunks(SplitChunks(text), width, 0), <<"\n">>)

\* def wrap_paragraph(text, width=90)
wrap_paragraph(text) == TextwrapFill(text, WrapWidth)

-----------------------------------------------------------------------------
(* llm.py *)

\* words separated by single spaces
Words(ws) == Join([i \in 1..Len(ws) |-> <<ws[i]>>], <<" ">>)

\* " [two em dashes] [the 19-character Chinese sentence of llm.py line 32]"
LocalSuffix == <<" ", "<emdash><emdash>", " ", "zh.generated.by.local.rules.no.external.LLM.call.">>

\* LocalRuleLLM.generate: the part of the prompt after its last newline, then
\* the fixed suffix
LocalRuleLLM_generate(prompt) ==
    LET lines == SplitOn(prompt, "\n")
        snippet == lines[Len(lines)]
    IN  snippet \o LocalSuffix

\* The classes build_llm_client can return and a stand-in for any other
\* LLMClient a caller passes (a test double)
RemoteClients == {"HFInferenceLLM", "OpenAIClient", "DeepSeekClient"}
ClientClasses == RemoteClients \cup {"LocalRuleLLM", "StubLLM"}

\* def build_llm_client(provider, *, endpoint, model, token, timeout):
\* [raised, client]
build_llm_client(provider, endpoint, token) ==
    IF provider = "huggingface"
    THEN IF Falsy(endpoint) THEN [raised |-> "ValueError", client |-> None]
         ELSE [raised |-> None, client |-> "HFInferenceLLM"]
    ELSE IF provider = "openai"
    THEN IF Falsy(token) THEN [raised |-> "ValueError", client |-> None]
         ELSE [raised |-> None, client |-> "OpenAIClient"]
    ELSE IF provider = "deepseek"
    THEN IF Falsy(token) THEN [raised |-> "ValueError", client |-> None]
         ELSE [raised |-> None, client |-> "DeepSeekClient"]
    ELSE [raised |-> None, client |-> "LocalRuleLLM"]

-----------------------------------------------------------------------------
(* generator.py: the text of one section *)

MaxTokens == 180

\* marker = f" {label}" if label else ""
Marker(label) == IF label # <<>> THEN <<" ">> \o label ELSE <<>>

\* a slip in the bullets: the third line is left out
_build_bullets_two(title, topic, keywords, label, lang) ==
    LET kws == IF keywords # <<>> THEN Join(Take(keywords, 3), <<",", " ">>) ELSE topic
    IN  IF lang = "zh"
        THEN << <<"zh.core.topic:">> \o title \o <<" ", "zh.and", " ">> \o topic \o Marker(label),
                <<"zh.key.concepts:">> \o kws >>
        ELSE << Words(<<"Core", "focus:">>) \o <<" ">> \o title \o <<" ", "within", " ">>
                    \o topic \o Marker(label),
                Words(<<"Key", "concepts:">>) \o <<" ">> \o kws >>

\* def _build_bullets(title, topic, keywords, label, lang)
_build_bullets(title, topic, keywords, label, lang) ==
    LET kws == IF keywords # <<>> THEN Join(Take(keywords, 3), <<",", " ">>) ELSE topic
    IN  IF lang = "zh"
        THEN << <<"zh.core.topic:">> \o title \o <<" ", "zh.and", " ">> \o topic \o Marker(label),
                <<"zh.key.concepts:">> \o kws,
                <<"zh.trends.contributions:methods.data.applications">> >>
        ELSE << Words(<<"Core", "focus:">>) \o <<" ">> \o title \o <<" ", "within", " ">>
                    \o topic \o Marker(label),
                Words(<<"Key", "concepts:">>) \o <<" ">> \o kws,
                Words(<<"Trends/contributions:", "methods,", "data,", "applications">>) >>

\* base_prompt of _build_paragraph
BasePrompt(title, topic, audience, keywords, label, lang) ==
    LET joined == Join(Take(keywords, 8), <<",", " ">>)
    IN  Words(<<"Write", "a", "concise", "paragraph", "(~120", "words)", "for", "a",
                "literature", "review", "section.">>) \o <<"\n">>
        \o <<"Section:", " ">> \o title \o <<"\n">>
        \o <<"Topic:", " ">> \o topic \o <<"\n">>
        \o <<"Audience:", " ", audience, "\n">>
        \o <<"Keywords:", " ">> \o (IF joined # <<>> THEN joined ELSE topic) \o <<"\n">>
        \o <<"Language:", " ", IF lang = "zh" THEN "Chinese" ELSE "English", "\n">>
        \o Words(<<"Include", "citation", "marker", "if", "provided:">>) \o <<" ">>
        \o (IF label # <<>> THEN label ELSE <<"None">>) \o <<"\n">>
        \o Words(<<"Emphasize", "evolution,", "representative", "work,", "applications,",
                   "and", "open", "issues.">>) \o <<"\n">>

\* def _fallback_paragraph(title, topic, audience, keywords, label, lang)
_fallback_paragraph(title, topic, audience, keywords, label, lang) ==
    LET kws == IF keywords # <<>> THEN Join(Take(keywords, 5), <<",", " ">>) ELSE topic
        citation == IF label # <<>> THEN <<" ", "(">> \o label \o <<")">> ELSE <<>>
    IN  IF lang = "zh"
        THEN <<"zh.this.section.focuses.on", " ">> \o topic
               \o <<" ", "zh.in.the.field.of<<">> \o title \o <<">>zh.fullstop">>
               \o <<" ", "zh.for", " ", audience, " ", "zh.readers,we.emphasise", " ">> \o kws
               \o <<" ", "zh.s.evolution,representative.work.and.use.cases">> \o citation
               \o <<"zh.fullstop">>
               \o <<" ", "zh.also.summarises.method.and.data.advances.and.open.issues.">>
        ELSE Words(<<"This", "section", "covers">>) \o <<" ", "'">> \o title
               \o <<"'", " ", "within", " ">> \o topic \o <<".">>
               \o <<" ", "For", " ", audience, " ">>
               \o Words(<<"readers,", "it", "highlights", "the", "evolution", "of">>)
               \o <<" ">> \o kws \o citation \o <<",">>
               \o <<" ">> \o Words(<<"representative", "work,", "and", "practical", "use",
                                    "cases,", "summarizing", "method/data", "advances",
                                    "and", "open", "issues.">>)

\* What one call of llm_client.generate can do: raise an exception of some
\* class, or return a string (possibly empty).
Raises(cls) == [kind |-> "raise", cls |-> cls, text |-> <<>>]
Returns(text) == [kind |-> "return", cls |-> None, text |-> text]

\* a slip in the handler: an empty result is returned as the paragraph
_build_paragraph_keeps_empty(title, topic, audience, keywords, label, lang, outcome) ==
    IF outcome.kind = "return" THEN outcome.text
    ELSE _fallback_paragraph(title, topic, audience, keywords, label, lang)

\* def _build_paragraph(...): the try block around llm_client.generate, given
\* the outcome of that call; `except Exception` catches every exception class
_build_paragraph(title, topic, audience, keywords, label, lang, outcome) ==
    IF outcome.kind = "return" /\ outcome.text # <<>> THEN outcome.text
    ELSE _fallback_paragraph(title, topic, audience, keywords, label, lang)

\* def _build_section(title, bullets, paragraph)
_build_section(title, bullets, paragraph) ==
    LET bullet_block == Join([i \in 1..Len(bullets) |-> <<"-", " ">> \o bullets[i]], <<"\n">>)
    IN  <<"##", " ">> \o title \o <<"\n", "\n">> \o bullet_block \o <<"\n", "\n">>
          \o wrap_paragraph(paragraph) \o <<"\n">>

\* the bilingual notice of the template's else branch
NoSourcesNotice ==
    <<"**zh.no.external.material.used", " ", "/", " ", "No", " ", "external", " ",
      "sources", " ", "used.**">>

\* a slip in the template: the notice is written outside the if/else
RenderTemplateNoticeAlways(topic, audience, length, mode, now, lang, sections, references) ==
    <<"#", " ">> \o topic \o <<" ", "<emdash>", " ", "Review", "\n">>
    \o <<"_Audience_:", " ", audience, " ", "|", " ", "_Length", " ", "target_:", " ">>
    \o IntToStr(length) \o <<" ", "words", " ", "|", " ", "_Mode_:", " ", mode, " ", "|", " ",
                             "_Date_:", " ", now, " ", "|", " ", "_Lang_:", " ", lang,
                             "\n", "\n">>
    \o Flatten([i \in 1..Len(sections) |-> <<"\n">> \o sections[i] \o <<"\n">>])
    \o <<"\n">>
    \o (IF references # <<>>
        THEN <<"\n", "##", " ", "References", "\n">> \o references \o <<"\n">>
        ELSE <<>>)
    \o <<"\n">> \o NoSourcesNotice \o <<"\n">>

\* template.render(...): the Jinja template of generate_review
RenderTemplate(topic, audience, length, mode, now, lang, sections, references) ==
    <<"#", " ">> \o topic \o <<" ", "<emdash>", " ", "Review", "\n">>
    \o <<"_Audience_:", " ", audience, " ", "|", " ", "_Length", " ", "target_:", " ">>
    \o IntToStr(length) \o <<" ", "words", " ", "|", " ", "_Mode_:", " ", mode, " ", "|", " ",
                             "_Date_:", " ", now, " ", "|", " ", "_Lang_:", " ", lang,
                             "\n", "\n">>
    \o Flatten([i \in 1..Len(sections) |-> <<"\n">> \o sections[i] \o <<"\n">>])
    \o <<"\n">>
    \o (IF references # <<>>
        THEN <<"\n", "##", " ", "References", "\n">> \o references \o <<"\n">>
        ELSE <<"\n">> \o NoSourcesNotice \o <<"\n">>)

-----------------------------------------------------------------------------
(* config.py *)

\* ReviewConfig.validate: the class of the exception raised, None when valid
validate(c) ==
    IF c.audience \notin {"researcher", "student", "industry", "general"} THEN "ValueError"
    ELSE IF c.mode \notin {"timeline", "school", "application", "custom"} THEN "ValueError"
    ELSE IF c.lang \notin {"zh", "en"} THEN "ValueError"
    ELSE IF c.mode = "custom" /\ Falsy(c.outline) THEN "ValueError"
    ELSE IF c.llm \notin {"local", "huggingface", "openai", "deepseek"} THEN "ValueError"
    ELSE IF c.llm_timeout <= 0 THEN "ValueError"
    ELSE None

-----------------------------------------------------------------------------
(* preprocess.py *)

\* The working directory of a command-line run: what a path specifier matches
\* (Path().glob), whether a match is a regular file, and what reading it gives.
Glob(pattern) ==
    CASE pattern = "a.txt" -> <<"a.txt">>
      [] pattern = "*.txt" -> <<"a.txt", "b.txt", "c.txt", "d.txt">>
      [] pattern = "locked.txt" -> <<"locked.txt">>
      [] pattern = "bin.dat" -> <<"bin.dat">>
      [] pattern = "notes" -> <<"notes">>
      [] OTHER -> <<>>

is_file(name) == name # "notes"

\* resolved.read_text(encoding="utf-8"): [raised, text]
read_text(name) ==
    CASE name = "a.txt" ->
           [raised |-> None, text |-> <<"<BOM>", "deep", " ", " ", "learning", "\n">>]
      [] name = "b.txt" -> [raised |-> None, text |-> <<"deep", "\n", "learning">>]
      [] name = "c.txt" -> [raised |-> None, text |-> <<" ", "<BOM>", "\n">>]
      [] name = "d.txt" -> [raised |-> None, text |-> <<"deep", " ", "models">>]
      [] name = "locked.txt" -> [raised |-> "PermissionError", text |-> <<>>]
      [] OTHER -> [raised |-> "UnicodeDecodeError", text |-> <<>>]

\* the exception classes `except OSError` catches
IsOSError(cls) == cls \in {"OSError", "PermissionError", "FileNotFoundError"}

\* def load_texts(paths): [raised, items], items being <<name, text>> pairs
RECURSIVE LoadFiles(_, _)
LoadFiles(names, items) ==
    IF names = <<>> THEN [raised |-> None, items |-> items]
    ELSE IF ~is_file(Head(names)) THEN LoadFiles(Tail(names), items)
    ELSE LET r == read_text(Head(names))
         IN  IF r.raised = None
             THEN LoadFiles(Tail(names), Append(items, <<Head(names), r.text>>))
             ELSE IF IsOSError(r.raised) THEN LoadFiles(Tail(names), items)
             ELSE [raised |-> r.raised, items |-> items]

RECURSIVE load_texts_from(_, _)
load_texts_from(patterns, items) ==
    IF patterns = <<>> THEN [raised |-> None, items |-> items]
    ELSE LET r == LoadFiles(Glob(Head(patterns)), items)
         IN  IF r.raised # None THEN r ELSE load_texts_from(Tail(patterns), r.items)

load_texts(patterns) == load_texts_from(patterns, <<>>)

\* re.sub(r"\s+", " ", text)
RECURSIVE CollapseWhitespace(_)
CollapseWhitespace(s) ==
    IF s = <<>> THEN <<>>
    ELSE IF Head(s) \in Whitespace
         THEN <<" ">> \o CollapseWhitespace(LStrip(s))
         ELSE <<Head(s)>> \o CollapseWhitespace(Tail(s))

\* def basic_clean(text)
basic_clean(text) ==
    CollapseWhitespace(Strip([i \in 1..Len(text) |-> IF text[i] = "<BOM>" THEN " " ELSE text[i]]))

\* a slip in the loop: the text is appended as given, not its stripped key
RECURSIVE DeduplicateFromAppendsText(_, _)
DeduplicateFromAppendsText(texts, unique) ==
    IF texts = <<>> THEN unique
    ELSE LET key == Strip(Head(texts))
         IN  IF key # <<>> /\ \A i \in 1..Len(unique) : Strip(unique[i]) # key
             THEN DeduplicateFromAppendsText(Tail(texts), Append(unique, Head(texts)))
             ELSE DeduplicateFromAppendsText(Tail(texts), unique)

\* def deduplicate(texts): the loop, `unique` being the list built so far (it
\* holds the keys of `seen` in insertion order)
RECURSIVE DeduplicateFrom(_, _)
DeduplicateFrom(texts, unique) ==
    IF texts = <<>> THEN unique
    ELSE LET key == Strip(Head(texts))
         IN  IF key # <<>> /\ \A i \in 1..Len(unique) : unique[i] # key
             THEN DeduplicateFrom(Tail(texts), Append(unique, key))
             ELSE DeduplicateFrom(Tail(texts), unique)

deduplicate(texts) == DeduplicateFrom(texts, <<>>)

\* the characters of the class [\u3002.!?] of segment_text's pattern, for text
\* given one character per token
Terminal == {".", "!", "?", "zh.fullstop"}

\* re.split(r"(?<=[\u3002.!?])\s+", text): the text cut at every run of
\* whitespace that follows a terminal character; cur is the piece being read.
\* The last piece is returned also when it is empty.
RECURSIVE ReSplit(_, _)
ReSplit(s, cur) ==
    IF s = <<>> THEN <<cur>>
    ELSE IF Head(s) \in Whitespace /\ cur # <<>> /\ cur[Len(cur)] \in Terminal
         THEN <<cur>> \o ReSplit(LStrip(s), <<>>)
         ELSE ReSplit(Tail(s), Append(cur, Head(s)))

\* the loop of segment_text over the sentences, and the statements after it
RECURSIVE Pack(_, _, _, _, _)
Pack(sentences, chunks, current, current_len, max_len) ==
    IF sentences = <<>>
    THEN (IF current # <<>> THEN Append(chunks, Join(current, <<" ">>)) ELSE chunks)
    ELSE LET sent == Head(sentences)
         IN  IF sent = <<>> THEN Pack(Tail(sentences), chunks, current, current_len, max_len)
             ELSE IF current_len + TextLen(sent) > max_len /\ current # <<>>
                  THEN Pack(Tail(sentences), Append(chunks, Join(current, <<" ">>)),
                            <<sent>>, TextLen(sent), max_len)
                  ELSE Pack(Tail(sentences), chunks, Append(current, sent),
                            current_len + TextLen(sent), max_len)

\* def segment_text(text, max_len)
segment_text(text, max_len) == Pack(ReSplit(text, <<>>), <<>>, <<>>, 0, max_len)

\* the loop of preprocess_sources that keeps the first document of each text
RECURSIVE KeepUnique(_, _, _)
KeepUnique(items, texts, names) ==
    IF items = <<>> THEN [unique_texts |-> texts, source_names |-> names]
    ELSE LET text == Head(items)[2]
         IN  IF text # <<>> /\ \A i \in 1..Len(texts) : texts[i] # text
             THEN KeepUnique(Tail(items), Append(texts, text), Append(names, <<Head(items)[1]>>))
             ELSE KeepUnique(Tail(items), texts, names)

\* def preprocess_sources(paths): [raised, unique_texts, source_names]
preprocess_sources(patterns) ==
    LET raw == load_texts(patterns)
        cleaned == [i \in 1..Len(raw.items) |-> <<raw.items[i][1], basic_clean(raw.items[i][2])>>]
        kept == KeepUnique(cleaned, <<>>, <<>>)
    IN  IF raw.raised # None
        THEN [raised |-> raw.raised, unique_texts |-> <<>>, source_names |-> <<>>]
        ELSE [raised |-> None, unique_texts |-> kept.unique_texts,
              source_names |-> kept.source_names]

\* The ranking scikit-learn's TfidfVectorizer(stop_words="english",
\* ngram_range=(1, 2)) gives for the corpora of the model: terms by summed
\* weight, ties in vocabulary order; a corpus of stop words has no vocabulary
\* and fit_transform raises ValueError.
TextDeepLearning == <<"deep", " ", "learning">>
TextDeepModels == <<"deep", " ", "models">>
TextStopWords == <<"the", " ", "of">>
TfidfRanked(texts) ==
    CASE texts = <<TextDeepLearning>> ->
           [raised |-> None,
            ranked |-> << <<"deep">>, <<"deep", " ", "learning">>, <<"learning">> >>]
      [] texts = <<TextDeepModels>> ->
           [raised |-> None,
            ranked |-> << <<"deep">>, <<"deep", " ", "models">>, <<"models">> >>]
      [] texts \in {<<TextDeepLearning, TextDeepModels>>, <<TextDeepModels, TextDeepLearning>>} ->
           [raised |-> None,
            ranked |-> << <<"deep">>, <<"deep", " ", "learning">>, <<"deep", " ", "models">>,
                          <<"learning">>, <<"models">> >>]
      [] OTHER -> [raised |-> "ValueError", ranked |-> <<>>]

TopK == 8

\* def extract_keywords(texts, top_k=8)
extract_keywords(texts) ==
    IF texts = <<>> THEN <<>>
    ELSE LET r == TfidfRanked(texts)
         IN  IF r.raised = "ValueError" THEN <<>> ELSE Take(r.ranked, TopK)

-----------------------------------------------------------------------------
(* Inputs the model draws *)

RECURSIVE SeqsUpTo(_, _)
SeqsUpTo(S, n) ==
    IF n = 0 THEN {<<>>}
    ELSE LET shorter == SeqsUpTo(S, n - 1)
         IN  shorter \cup {Append(s, x) : s \in {t \in shorter : Len(t) = n - 1}, x \in S}

\* paths and document names given to map_sources
PathInputs ==
    { <<"a.txt">>, <<"b.txt">>, <<"docs", "/", "a.txt">>, <<"up", "/">> }

\* characters of a custom outline spec
SpecChars == {"A", " ", ";"}
OutlineSpecs == SeqsUpTo(SpecChars, MaxSpecLen)

Modes == {"timeline", "school", "application", "custom", "Custom", "TIMELINE", "survey"}

Kw(i) == <<"k", Digit(i)>>
\* keyword lists: k1..kn, a list with a repeated keyword, one with a two-word keyword
KeywordLists ==
    { [i \in 1..n |-> Kw(i)] : n \in 0..MaxKeywords }
      \cup { <<Kw(1), Kw(1)>>, << <<"deep", " ", "learning">>, Kw(2) >> }

Topics == { <<"AI">>, <<"Test", " ", "Topic">> }

-----------------------------------------------------------------------------
(* citations.py on its own: map_sources, then rotate_citations *)

OutlineIdle ==
    /\ ocall = [mode |-> "", topic |-> <<>>, keywords |-> <<>>, custom_outline |-> NoneStr]
    /\ okeywords = <<>>
    /\ oret = <<>>
CitationsIdle == paths = <<>> /\ count = 0 /\ mapping = <<>> /\ rotated = <<>> /\ cpc = "idle"

NoConfig ==
    [topic |-> <<>>, audience |-> "", length |-> 0, mode |-> "", keywords |-> <<>>,
     outline |-> NoneStr, sources |-> <<>>, lang |-> "", output |-> NoneStr, llm |-> "",
     llm_endpoint |-> NoneStr, llm_token |-> NoneStr, llm_timeout |-> 0]
NoArgs ==
    [topic |-> <<>>, audience |-> "", length |-> 0, mode |-> "", keywords |-> <<>>,
     outline |-> <<>>, sources |-> <<>>, source_names |-> <<>>, lang |-> "",
     llm_client |-> None]
NoFrame ==
    [mapping |-> <<>>, citation_labels |-> <<>>, now |-> "", all_keywords |-> <<>>,
     idx |-> 0, paragraph |-> <<>>, sections |-> <<>>]
NotRaised == [cls |-> None, by |-> None]
NoCall == [texts |-> <<>>, text |-> <<>>, max_len |-> 0, paths |-> <<>>]
FunctionsIdle == fcall = NoCall /\ fret = <<>>
RunIdle ==
    /\ cfg = NoConfig /\ backend = {} /\ pc = "idle" /\ raised = NotRaised
    /\ args = NoArgs /\ frame = NoFrame /\ calls = <<>> /\ content = <<>>

InitCitations ==
    /\ unit = "citations"
    /\ paths \in SeqsUpTo(PathInputs, MaxPaths)
    /\ count \in 0..MaxCount
    /\ mapping = <<>>
    /\ rotated = <<>>
    /\ cpc = "start"
    /\ OutlineIdle
    /\ RunIdle
    /\ FunctionsIdle

CallMapSources ==
    /\ cpc = "start"
    /\ mapping' = map_sources(paths)
    /\ cpc' = "mapped"
    /\ UNCHANGED <<unit, paths, count, rotated, outvars, runvars, funvars>>

CallRotateCitations ==
    /\ cpc = "mapped"
    /\ rotated' = rotate_citations(mapping, count)
    /\ cpc' = "rotated"
    /\ UNCHANGED <<unit, paths, count, mapping, outvars, runvars, funvars>>

NextCitations == CallMapSources \/ CallRotateCitations

SpecCitations == InitCitations /\ [][NextCitations]_vars

-----------------------------------------------------------------------------
(* outline.py on its own: generate_outline called MaxCalls times on one input *)

InitOutline ==
    /\ unit = "outline"
    /\ ocall \in [mode : Modes, topic : Topics, keywords : KeywordLists,
                  custom_outline : OutlineSpecs \cup {NoneStr}]
    /\ okeywords = ocall.keywords
    /\ oret = <<>>
    /\ CitationsIdle
    /\ RunIdle
    /\ FunctionsIdle

CallGenerateOutline ==
    /\ unit = "outline"
    /\ Len(oret) < MaxCalls
    /\ LET r == generate_outline(ocall.mode, ocall.topic, okeywords, ocall.custom_outline)
       IN  /\ oret' = Append(oret, [raised |-> r.raised, value |-> r.value])
           /\ okeywords' = r.keywords
    /\ UNCHANGED <<unit, ocall, citvars, runvars, funvars>>

NextOutline == CallGenerateOutline

SpecOutline == InitOutline /\ [][NextOutline]_vars

-----------------------------------------------------------------------------
(* preprocess.py and utils.py, a function at a time: deduplicate (called     *)
(* again on its own result), segment_text, load_texts, wrap_paragraph          *)

\* texts given to deduplicate
DedupTexts ==
    { <<>>, <<" ">>, <<"a">>, <<" ", "a">>, <<"a", "\n">>, <<"b">>, <<"a", " ", "b">> }

\* characters of a text given to segment_text, and some texts with the other
\* terminal characters and kinds of whitespace
TextChars == {"a", ".", " "}
SegmentTexts ==
    SeqsUpTo(TextChars, MaxTextLen)
      \cup { <<"a", "?", "\n", "\n", "b", "!", " ", "c">>,
              <<"a", "zh.fullstop", " ", "b", "zh.fullstop">>,
              <<"a", ".", "b", " ", "c", ".", " ">> }

\* paragraphs given to wrap_paragraph: words of 14, 3 and 13 characters, the
\* last one hyphenated; a word of 91 characters; runs of whitespace
ParagraphWords == { <<"representative">>, <<"and">>, <<"Cross-", "cutting">> }
LongWord == [i \in 1..(WrapWidth + 1) |-> "x"]
Paragraphs ==
    { Join(ws, <<" ">>) : ws \in SeqsUpTo(ParagraphWords, MaxWords) }
      \cup { LongWord,
              <<"and", " ">> \o LongWord \o <<" ", "and">>,
              <<" ", "and", " ", "\n", "and", "\n">> }

\* path specifiers given to load_texts, in the working directory of Glob
PathSpecifiers == {"a.txt", "*.txt", "missing.txt", "locked.txt", "notes", "bin.dat"}
PathLists == SeqsUpTo(PathSpecifiers, MaxSpecifiers)

InitFunctions ==
    /\ unit \in {"deduplicate", "segment_text", "load_texts", "wrap_paragraph"}
    /\ \/ unit = "deduplicate"
          /\ \E texts \in SeqsUpTo(DedupTexts, MaxTexts) : fcall = [NoCall EXCEPT !.texts = texts]
       \/ unit = "segment_text"
          /\ \E text \in SegmentTexts, max_len \in 0..MaxLenArg :
                fcall = [NoCall EXCEPT !.text = text, !.max_len = max_len]
       \/ unit = "load_texts"
          /\ \E ps \in PathLists : fcall = [NoCall EXCEPT !.paths = ps]
       \/ unit = "wrap_paragraph"
          /\ \E text \in Paragraphs : fcall = [NoCall EXCEPT !.text = text]
    /\ fret = <<>>
    /\ CitationsIdle
    /\ OutlineIdle
    /\ RunIdle

\* deduplicate(texts), then deduplicate of what that call returned
CallDeduplicate ==
    /\ unit = "deduplicate"
    /\ Len(fret) < 2
    /\ fret' = Append(fret, deduplicate(IF fret = <<>> THEN fcall.texts ELSE fret[Len(fret)]))
    /\ UNCHANGED <<unit, fcall, citvars, outvars, runvars>>

CallSegmentText ==
    /\ unit = "segment_text"
    /\ fret = <<>>
    /\ fret' = <<segment_text(fcall.text, fcall.max_len)>>
    /\ UNCHANGED <<unit, fcall, citvars, outvars, runvars>>

CallLoadTexts ==
    /\ unit = "load_texts"
    /\ fret = <<>>
    /\ fret' = <<load_texts(fcall.paths)>>
    /\ UNCHANGED <<unit, fcall, citvars, outvars, runvars>>

CallWrapParagraph ==
    /\ unit = "wrap_paragraph"
    /\ fret = <<>>
    /\ fret' = <<wrap_paragraph(fcall.text)>>
    /\ UNCHANGED <<unit, fcall, citvars, outvars, runvars>>

NextFunctions == CallDeduplicate \/ CallSegmentText \/ CallLoadTexts \/ CallWrapParagraph

SpecFunctions == InitFunctions /\ [][NextFunctions]_vars

-----------------------------------------------------------------------------
(* One generation run.  entry "cli": parse_args has built cfg; validate, then *)
(* run (preprocess_sources, build_llm_client, plan_and_generate, the write of *)
(* --output).  entry "generate_review": a caller (a test, the library) calls  *)
(* generate_review with arguments of its own.                                 *)

\* inputs of a command-line run: values argparse accepts (its choices lists,
\* type=int), in the working directory of Glob, where "notes" is a directory
CliSourceLists ==
    { <<>>, <<"a.txt">>, <<"*.txt">>, <<"missing.txt", "locked.txt", "notes">>,
      <<"a.txt", "bin.dat">> }
CliConfigs ==
    [topic : {<<"AI">>}, audience : {"general"}, length : {1500},
     mode : {"timeline", "custom"},
     keywords : {<<>>, <<Kw(1), Kw(2)>>},
     outline : {NoneStr, <<";">>, <<"A", ";", "A", " ", "A">>},
     sources : CliSourceLists, lang : {"en", "zh"},
     output : {NoneStr, <<"out.md">>, <<"notes">>},
     llm : {"local", "huggingface", "openai", "deepseek"},
     llm_endpoint : {NoneStr, <<"https://hf.example/model">>},
     llm_token : {NoneStr, <<"secret">>},
     llm_timeout : {0, 8}]

\* what a call of a remote or stand-in client's generate can do
BackendText == Words(<<"Generated", "prose.">>)
AnyOutcome ==
    {Raises("ConnectionError"), Raises("KeyError"), Returns(<<>>), Returns(BackendText)}
AlwaysRaises == {Raises("ConnectionError")}
AlwaysReturns == {Returns(BackendText)}

\* inputs of a direct call of generate_review
ReviewOutlines ==
    { <<>>, << <<"Section", " ", "A">> >>, << <<"Introduction">>, <<"Body">> >>,
      << <<"A">>, <<"B">>, <<"References">> >> }
ReviewArgs ==
    [topic : {<<"Test">>}, audience : {"student"}, length : {200}, mode : {"application"},
     keywords : {<<>>, [i \in 1..6 |-> Kw(i)]},
     outline : ReviewOutlines,
     sources : {<<>>, <<TextDeepLearning>>, <<TextDeepLearning, TextDeepModels>>},
     source_names : {<<>>, << <<"sample.txt">> >>, << <<"a.txt">>, <<"docs", "/", "b.txt">> >>},
     lang : {"en", "zh"},
     llm_client : {None, "LocalRuleLLM", "StubLLM"}]

Dates == {"2026-01-15"}

InitRun ==
    /\ unit \in {"cli", "generate_review"}
    /\ IF unit = "cli"
       THEN /\ cfg \in CliConfigs
            /\ backend \in (IF cfg.llm \in {"huggingface", "openai", "deepseek"}
                            THEN (IF cfg.mode = "custom"
                                  THEN {AnyOutcome, AlwaysRaises}
                                  ELSE {AlwaysReturns, AlwaysRaises})
                            ELSE {{}})
            /\ args = NoArgs
            /\ pc = "validate"
       ELSE /\ cfg = NoConfig
            /\ args \in ReviewArgs
            /\ backend \in (IF args.llm_client = "StubLLM"
                            THEN {AnyOutcome, AlwaysRaises} ELSE {{}})
            /\ pc = "generate_review"
    /\ raised = NotRaised
    /\ frame = NoFrame
    /\ calls = <<>>
    /\ content = <<>>
    /\ CitationsIdle
    /\ OutlineIdle
    /\ FunctionsIdle

\* cfg.validate(), the last statement of parse_args
Validate ==
    /\ pc = "validate"
    /\ LET e == validate(cfg)
       IN  IF e # None
           THEN pc' = "raised" /\ raised' = [cls |-> e, by |-> "validate"]
           ELSE pc' = "run" /\ UNCHANGED raised
    /\ UNCHANGED <<unit, citvars, outvars, funvars, cfg, backend, args, frame, calls, content>>

\* run: preprocess_sources(cfg.sources); sources_used, source_names
RunPreprocess ==
    /\ pc = "run"
    /\ LET r == preprocess_sources(cfg.sources)
       IN  IF r.raised # None
           THEN /\ pc' = "raised"
                /\ raised' = [cls |-> r.raised, by |-> "preprocess_sources"]
                /\ UNCHANGED args
           ELSE /\ pc' = "build_llm_client"
                /\ args' = [args EXCEPT !.sources = r.unique_texts,
                                        !.source_names = r.source_names]
                /\ UNCHANGED raised
    /\ UNCHANGED <<unit, citvars, outvars, funvars, cfg, backend, frame, calls, content>>

\* run: llm_client = None; if cfg.llm != "local": build_llm_client(...)
RunBuildClient ==
    /\ pc = "build_llm_client"
    /\ IF cfg.llm # "local"
       THEN LET r == build_llm_client(cfg.llm, cfg.llm_endpoint, cfg.llm_token)
            IN  IF r.raised # None
                THEN /\ pc' = "raised"
                     /\ raised' = [cls |-> r.raised, by |-> "build_llm_client"]
                     /\ UNCHANGED args
                ELSE /\ pc' = "plan_and_generate"
                     /\ args' = [args EXCEPT !.llm_client = r.client]
                     /\ UNCHANGED raised
       ELSE /\ pc' = "plan_and_generate"
            /\ args' = [args EXCEPT !.llm_client = None]
            /\ UNCHANGED raised
    /\ UNCHANGED <<unit, citvars, outvars, funvars, cfg, backend, frame, calls, content>>

\* plan_and_generate: generate_outline, then the call of generate_review
PlanAndGenerate ==
    /\ pc = "plan_and_generate"
    /\ LET r == generate_outline(cfg.mode, cfg.topic, cfg.keywords, cfg.outline)
       IN  IF r.raised # None
           THEN /\ pc' = "raised"
                /\ raised' = [cls |-> r.raised, by |-> "generate_outline"]
                /\ UNCHANGED args
           ELSE /\ pc' = "generate_review"
                /\ args' = [args EXCEPT !.topic = cfg.topic, !.audience = cfg.audience,
                                        !.length = cfg.length, !.mode = cfg.mode,
                                        !.keywords = cfg.keywords, !.outline = r.value,
                                        !.lang = cfg.lang]
                /\ UNCHANGED raised
    /\ UNCHANGED <<unit, citvars, outvars, funvars, cfg, backend, frame, calls, content>>

\* f"Source_{i}"
SourceName(i) == <<"Source_">> \o IntToStr(i)

\* generate_review up to its loop: mapping, citation_labels, now, all_keywords
GenerateReviewBegin ==
    /\ pc = "generate_review"
    /\ \E today \in Dates :
         LET m == IF args.source_names # <<>> THEN map_sources(args.source_names)
                  ELSE IF args.sources # <<>>
                       THEN map_sources([i \in 1..Len(args.sources) |-> SourceName(i)])
                       ELSE <<>>
             n == IF Len(args.outline) > 1 THEN Len(args.outline) ELSE 1
             auto_keywords == IF args.keywords = <<>> THEN extract_keywords(args.sources)
                              ELSE args.keywords
         IN  frame' = [mapping |-> m,
                       citation_labels |-> rotate_citations(m, n),
                       now |-> today,
                       all_keywords |-> IF args.keywords # <<>> THEN args.keywords
                                        ELSE auto_keywords,
                       idx |-> 0,
                       paragraph |-> <<>>,
                       sections |-> <<>>]
    /\ pc' = "for"
    /\ UNCHANGED <<unit, citvars, outvars, funvars, cfg, backend, raised, args, calls, content>>

\* a slip in the label: every section gets the first label
SectionLabelFirst(f) ==
    IF f.citation_labels # <<>> THEN f.citation_labels[1] ELSE <<>>

\* label = citation_labels[idx] if idx < len(citation_labels) else ""
SectionLabel(f) ==
    IF f.idx < Len(f.citation_labels) THEN f.citation_labels[f.idx + 1] ELSE <<>>

\* llm_client or LocalRuleLLM()
ClientUsed(a) == IF a.llm_client = None THEN "LocalRuleLLM" ELSE a.llm_client

\* one pass of the loop, up to the call llm_client.generate(base_prompt, max_tokens=180)
CallGenerate ==
    /\ pc = "for"
    /\ frame.idx < Len(args.outline)
    /\ LET title == args.outline[frame.idx + 1]
           prompt == BasePrompt(title, args.topic, args.audience, frame.all_keywords,
                                SectionLabel(frame), args.lang)
       IN  calls' = Append(calls, [idx |-> frame.idx, client |-> ClientUsed(args),
                                   prompt |-> prompt, max_tokens |-> MaxTokens,
                                   done |-> FALSE, outcome |-> Returns(<<>>)])
    /\ pc' = "generate"
    /\ UNCHANGED <<unit, citvars, outvars, funvars, cfg, backend, raised, args, frame, content>>

\* what the call in flight can do
Outcomes(call) ==
    IF call.client = "LocalRuleLLM" THEN {Returns(LocalRuleLLM_generate(call.prompt))}
    ELSE backend

\* a slip in the loop: a call that raised is issued once more for its section
GenerateEndsRetrying ==
    /\ pc = "generate"
    /\ \E outcome \in Outcomes(calls[Len(calls)]) :
         LET title == args.outline[frame.idx + 1]
             label == SectionLabel(frame)
             bullets == _build_bullets(title, args.topic, frame.all_keywords, label, args.lang)
             paragraph == _build_paragraph(title, args.topic, args.audience,
                                           frame.all_keywords, label, args.lang, outcome)
             retry == /\ outcome.kind = "raise"
                      /\ Cardinality({j \in 1..Len(calls) : calls[j].idx = frame.idx}) < 2
         IN  /\ calls' = [calls EXCEPT ![Len(calls)].done = TRUE,
                                       ![Len(calls)].outcome = outcome]
             /\ frame' = IF retry THEN frame
                         ELSE [frame EXCEPT
                                 !.paragraph = paragraph,
                                 !.sections = Append(@, _build_section(title, bullets, paragraph)),
                                 !.idx = @ + 1]
    /\ pc' = "for"
    /\ UNCHANGED <<unit, citvars, outvars, funvars, cfg, backend, raised, args, content>>

\* the call returns or raises; the rest of the pass: paragraph, bullets, section
GenerateEnds ==
    /\ pc = "generate"
    /\ \E outcome \in Outcomes(calls[Len(calls)]) :
         LET title == args.outline[frame.idx + 1]
             label == SectionLabel(frame)
             bullets == _build_bullets(title, args.topic, frame.all_keywords, label, args.lang)
             paragraph == _build_paragraph(title, args.topic, args.audience,
                                           frame.all_keywords, label, args.lang, outcome)
         IN  /\ calls' = [calls EXCEPT ![Len(calls)].done = TRUE,
                                       ![Len(calls)].outcome = outcome]
             /\ frame' = [frame EXCEPT
                            !.paragraph = paragraph,
                            !.sections = Append(@, _build_section(title, bullets, paragraph)),
                            !.idx = @ + 1]
    /\ pc' = "for"
    /\ UNCHANGED <<unit, citvars, outvars, funvars, cfg, backend, raised, args, content>>

\* after the loop: references, template.render, return (to run, through
\* plan_and_generate, in a command-line run)
Render ==
    /\ pc = "for"
    /\ frame.idx = Len(args.outline)
    /\ LET references == IF frame.mapping # <<>> THEN format_references(frame.mapping)
                         ELSE <<>>
       IN  content' = RenderTemplate(args.topic, args.audience, args.length, args.mode,
                                     frame.now, args.lang, frame.sections, references)
    /\ pc' = IF unit = "cli" THEN "write" ELSE "returned"
    /\ UNCHANGED <<unit, citvars, outvars, funvars, cfg, backend, raised, args, frame, calls>>

\* run: if cfg.output: mkdir of the parent, cfg.output.write_text(content);
\* return content.  Writing to a path that is a directory raises.
RunWriteOutput ==
    /\ pc = "write"
    /\ IF cfg.output # NoneStr /\ ~is_file(cfg.output[1])
       THEN pc' = "raised" /\ raised' = [cls |-> "IsADirectoryError", by |-> "write_text"]
       ELSE pc' = "returned" /\ UNCHANGED raised
    /\ UNCHANGED <<unit, citvars, outvars, funvars, cfg, backend, args, frame, calls, content>>

Next ==
    \/ Validate
    \/ RunPreprocess
    \/ RunBuildClient
    \/ PlanAndGenerate
    \/ GenerateReviewBegin
    \/ CallGenerate
    \/ GenerateEnds
    \/ Render
    \/ RunWriteOutput

Spec == InitRun /\ [][Next]_vars

-----------------------------------------------------------------------------
(* Claims about citations.py, checked under SpecCitations *)

\* "[S1]", "[S2]", ... written out (the model's lists are shorter than 10)
ExpectedLabel(i) == <<"[S", Digit(i), "]">>

\* v is the final path component of p: a run of p without "/", starting at p's
\* start or after a "/", followed by nothing but "/"; empty when p has no such run
IsFinalComponent(p, v) ==
    IF \A k \in 1..Len(p) : p[k] = "/" THEN v = <<>>
    ELSE \E i \in 1..Len(p), j \in 1..Len(p) :
            /\ i <= j
            /\ v = SubSeq(p, i, j)
            /\ \A k \in i..j : p[k] # "/"
            /\ i = 1 \/ p[i-1] = "/"
            /\ \A k \in (j+1)..Len(p) : p[k] = "/"

MapSourcesReturned == unit = "citations" /\ cpc \in {"mapped", "rotated"}

\* C5 as stated: map_sources returns exactly n entries, labelled [S1]..[Sn] in
\* insertion order without gap or duplicate, the i-th label mapped to the i-th
\* input name itself; the empty sequence gives the empty map.
C5_AsStated ==
    MapSourcesReturned =>
        /\ Len(mapping) = Len(paths)
        /\ \A i \in 1..Len(paths) : mapping[i] = <<ExpectedLabel(i), paths[i]>>

\* C5, amended: map_sources returns exactly n entries, labelled [S1]..[Sn] in
\* insertion order without gap or duplicate (repeated names included), the i-th
\* label mapped to the final path component of the i-th input, which is the
\* input itself when it holds no "/"; the empty sequence gives the empty map.
C5_MapSources ==
    MapSourcesReturned =>
        /\ Len(mapping) = Len(paths)
        /\ \A i \in 1..Len(paths) :
              /\ mapping[i][1] = ExpectedLabel(i)
              /\ IsFinalComponent(paths[i], mapping[i][2])
              /\ (\A k \in 1..Len(paths[i]) : paths[i][k] # "/")
                    => mapping[i][2] = paths[i]
        /\ \A i, j \in 1..Len(mapping) : mapping[i][1] = mapping[j][1] => i = j
        /\ paths = <<>> => mapping = <<>>

\* map_sources has returned for three inputs, two of them the same name and one
\* of them a path with a directory part
C5_Witness ==
    /\ MapSourcesReturned
    /\ paths = << <<"a.txt">>, <<"docs", "/", "a.txt">>, <<"a.txt">> >>
    /\ Len(mapping) = 3

\* C6: for a citation map with n labels and a count >= 0, rotate_citations
\* returns exactly count labels when n >= 1, entry i being the map's label at
\* index i mod n, and the empty sequence when n = 0 whatever the count.
C6_RotateCitations ==
    (unit = "citations" /\ cpc = "rotated") =>
        LET n == Len(mapping) IN
        IF n >= 1
        THEN /\ Len(rotated) = count
             /\ \A i \in 0..(count - 1) : rotated[i + 1] = mapping[(i % n) + 1][1]
        ELSE rotated = <<>>

\* rotate_citations has returned more labels than the map holds: it wrapped
C6_Witness ==
    /\ unit = "citations" /\ cpc = "rotated"
    /\ Len(mapping) = 2 /\ count = 4
    /\ rotated = <<ExpectedLabel(1), ExpectedLabel(2), ExpectedLabel(1), ExpectedLabel(2)>>

-----------------------------------------------------------------------------
(* Claims about outline.py, checked under SpecOutline *)

IsBlank(s) == \A k \in 1..Len(s) : s[k] \in Whitespace

\* s without its leading and trailing whitespace, stated by positions
Trimmed(s) ==
    IF IsBlank(s) THEN <<>>
    ELSE LET inked == {k \in 1..Len(s) : s[k] \notin Whitespace}
             lo == CHOOSE k \in inked : \A m \in inked : k <= m
             hi == CHOOSE k \in inked : \A m \in inked : k >= m
         IN  SubSeq(s, lo, hi)

\* the positions that bound the semicolon-separated parts of s
PartBounds(s) == {0, Len(s) + 1} \cup {k \in 1..Len(s) : s[k] = ";"}
\* the part that starts after bound a
PartAfter(s, a) ==
    LET b == CHOOSE k \in PartBounds(s) : k > a /\ \A m \in PartBounds(s) : m > a => k <= m
    IN  SubSeq(s, a + 1, b - 1)
PartStarts(s) == PartBounds(s) \ {Len(s) + 1}
InkedStarts(s) == {a \in PartStarts(s) : ~IsBlank(PartAfter(s, a))}

\* the titles a custom spec stands for: its non-blank parts, trimmed, in order
IsTitlesOf(s, titles) ==
    /\ Len(titles) = Cardinality(InkedStarts(s))
    /\ \A a \in InkedStarts(s) :
          titles[1 + Cardinality({c \in InkedStarts(s) : c < a})] = Trimmed(PartAfter(s, a))

CustomCall == unit = "outline" /\ ocall.mode \in {"custom", "Custom"}

\* C8 as stated: in custom mode generate_outline never returns an empty outline:
\* it fails when the spec is absent or empty and also when the spec yields no
\* part after splitting and trimming; a returned outline has at least one title
\* and no blank title.
C8_CustomNeverEmpty ==
    CustomCall =>
        \A c \in 1..Len(oret) :
            /\ (ocall.custom_outline = NoneStr \/ InkedStarts(ocall.custom_outline) = {})
                  => oret[c].raised = "ValueError"
            /\ oret[c].raised = None =>
                  /\ oret[c].value # <<>>
                  /\ \A t \in 1..Len(oret[c].value) : ~IsBlank(oret[c].value[t])

\* C9: in custom mode with a spec that has a non-blank part, generate_outline
\* returns exactly the semicolon-separated parts of the spec, trimmed, blank
\* parts dropped, in order, repeated titles kept, whatever the topic and the
\* keywords, and adds no title of its own.
C9_CustomOutline ==
    (CustomCall /\ ocall.custom_outline # NoneStr
                /\ InkedStarts(ocall.custom_outline) # {}) =>
        \A c \in 1..Len(oret) :
            /\ oret[c].raised = None
            /\ IsTitlesOf(ocall.custom_outline, oret[c].value)

\* generate_outline has returned for " A;;A" given keywords: a part to trim, a
\* blank part to drop, a repeated title to keep
C9_Witness ==
    /\ CustomCall
    /\ ocall.custom_outline = <<" ", "A", ";", ";", "A">>
    /\ ocall.keywords # <<>>
    /\ Len(oret) >= 1
    /\ oret[1].value = << <<"A">>, <<"A">> >>

\* the built-in modes, matched without regard to case as the code does
ModeNamed(mode) ==
    CASE mode \in {"timeline", "TIMELINE"} -> "timeline"
      [] mode \in {"school", "School"} -> "school"
      [] mode = "application" -> "application"
      [] OTHER -> "other"

ExpectedBody(mode) ==
    CASE ModeNamed(mode) = "timeline" ->
           << <<"Early", " ", "stage">>, <<"Middle", " ", "stage">>,
              <<"Recent", " ", "trends">> >>
      [] ModeNamed(mode) = "school" ->
           << <<"Methodological", " ", "schools">>, <<"Representative", " ", "work">>,
              <<"Key", " ", "debates">> >>
      [] ModeNamed(mode) = "application" ->
           << <<"Applications">>, <<"Case", " ", "studies">>, <<"Impact">> >>
      [] OTHER -> << <<"Key", " ", "themes">> >>

\* the first four keywords, comma-separated, written out by the list's length
ExpectedKeywordTitle(kws) ==
    <<"Cross-", "cutting", " ", "themes:", " ">> \o
    (CASE Len(kws) = 1 -> kws[1]
       [] Len(kws) = 2 -> kws[1] \o <<",", " ">> \o kws[2]
       [] Len(kws) = 3 -> kws[1] \o <<",", " ">> \o kws[2] \o <<",", " ">> \o kws[3]
       [] OTHER -> kws[1] \o <<",", " ">> \o kws[2] \o <<",", " ">> \o kws[3]
                      \o <<",", " ">> \o kws[4])

\* C10: for a mode that is not custom and any keyword list, generate_outline
\* never raises and returns Introduction, the mode's body (three fixed titles for
\* timeline, school, application; Key themes for any other value), one extra
\* section built from the first 4 keywords iff keywords is non-empty, then
\* Comparative Analysis, Challenges and Limitations, Future Directions,
\* References; every call on the same arguments returns the same sequence and
\* the caller's keyword list is unchanged.
C10_BuiltinOutline ==
    (unit = "outline" /\ ~CustomCall) =>
        /\ okeywords = ocall.keywords
        /\ \A c \in 1..Len(oret) :
              /\ oret[c].raised = None
              /\ oret[c].value =
                    << <<"Introduction">> >> \o ExpectedBody(ocall.mode)
                    \o (IF ocall.keywords # <<>>
                        THEN <<ExpectedKeywordTitle(ocall.keywords)>> ELSE <<>>)
                    \o << <<"Comparative", " ", "Analysis">>,
                          <<"Challenges", " ", "and", " ", "Limitations">>,
                          <<"Future", " ", "Directions">>, <<"References">> >>
              /\ oret[c].value[Len(oret[c].value)] = <<"References">>
              /\ oret[c].value = oret[1].value

\* generate_outline has returned twice for timeline with five keywords
C10_Witness ==
    /\ unit = "outline"
    /\ ocall.mode = "timeline"
    /\ Len(ocall.keywords) = 5
    /\ Len(oret) = 2
    /\ Len(oret[2].value) = 9

-----------------------------------------------------------------------------
(* Claims about a generation run, checked under Spec *)

\* the section a call of generate was made for, and what that section's pass
\* is given
CallTitle(j) == args.outline[calls[j].idx + 1]
CallLabel(j) ==
    IF calls[j].idx < Len(frame.citation_labels)
    THEN frame.citation_labels[calls[j].idx + 1] ELSE <<>>
FallbackFor(j) ==
    _fallback_paragraph(CallTitle(j), args.topic, args.audience, frame.all_keywords,
                        CallLabel(j), args.lang)
SectionWith(j, paragraph) ==
    _build_section(CallTitle(j),
                   _build_bullets(CallTitle(j), args.topic, frame.all_keywords, CallLabel(j),
                                  args.lang),
                   paragraph)

\* the paragraph the j-th call's outcome should lead to
ExpectedParagraph(j) ==
    IF calls[j].outcome.kind = "raise" \/ calls[j].outcome.text = <<>>
    THEN FallbackFor(j)
    ELSE calls[j].outcome.text

\* C1: whatever a call of the backend's generate did (raised an error of any
\* class, returned an empty result, returned text), the pass of its section
\* went on without an error: the section was composed, and its paragraph is
\* the fallback template's text for that section when the call raised or
\* returned nothing, the returned text when it returned some.
C1_BuildParagraph ==
    \A j \in 1..Len(calls) :
        calls[j].done =>
            /\ raised.by \notin {"generate", "_build_paragraph"}
            /\ frame.idx >= j
            /\ Len(frame.sections) >= j
            /\ (j = Len(calls) => frame.paragraph = ExpectedParagraph(j))

\* one run in which a call raised, a call returned nothing and a call returned text
C1_Witness ==
    /\ pc = "returned"
    /\ \E i, j, k \in 1..Len(calls) :
         /\ calls[i].outcome.kind = "raise" /\ frame.sections[i] = SectionWith(i, FallbackFor(i))
         /\ calls[j].outcome = Returns(<<>>) /\ frame.sections[j] = SectionWith(j, FallbackFor(j))
         /\ calls[k].outcome = Returns(BackendText)
         /\ frame.sections[k] = SectionWith(k, BackendText)

\* the document whose every paragraph is the fallback template's text
FallbackDocument ==
    RenderTemplate(args.topic, args.audience, args.length, args.mode, frame.now, args.lang,
                   [i \in 1..Len(args.outline) |->
                      LET title == args.outline[i]
                          label == IF i - 1 < Len(frame.citation_labels)
                                   THEN frame.citation_labels[i] ELSE <<>>
                      IN  _build_section(title,
                                         _build_bullets(title, args.topic, frame.all_keywords,
                                                        label, args.lang),
                                         _fallback_paragraph(title, args.topic, args.audience,
                                                             frame.all_keywords, label,
                                                             args.lang))],
                   IF frame.mapping # <<>> THEN format_references(frame.mapping) ELSE <<>>)

NoBackendPassed == args.llm_client = None
BackendAlwaysRaises == args.llm_client \notin {None, "LocalRuleLLM"} /\ backend = AlwaysRaises

\* C2: a run given a backend whose generate always raises and a run given no
\* backend return the same document for the same inputs, the one whose every
\* paragraph is the fallback template's text.
C2_AsStated ==
    (pc = "returned" /\ (NoBackendPassed \/ BackendAlwaysRaises)) => content = FallbackDocument

\* the half of C2 the code has: with a backend that always raises the document
\* is the fallback document
C2_RaisingBackendFallsBack ==
    (pc = "returned" /\ BackendAlwaysRaises) => content = FallbackDocument

C2_RaisingWitness ==
    pc = "returned" /\ BackendAlwaysRaises /\ Len(args.outline) > 1 /\ content = FallbackDocument

\* the run is past its loop
LoopOver == pc \in {"write", "returned"} \/ (pc = "raised" /\ raised.by = "write_text")

\* C3: generate is called once per section of the outline, in outline order;
\* a call has finished before the next section's pass starts; a section whose
\* call failed is not called for again, and the sections after it still get
\* their call: when the loop is over there have been exactly k calls.
C3_OneCallPerSection ==
    /\ Len(calls) <= Len(args.outline)
    /\ \A j \in 1..Len(calls) :
         /\ calls[j].idx = j - 1
         /\ calls[j].max_tokens = MaxTokens
         /\ (j < Len(calls) => calls[j].done)
         /\ (~calls[j].done => pc = "generate" /\ frame.idx = j - 1
                                 /\ Len(frame.sections) = j - 1)
         /\ (calls[j].done => Len(frame.sections) >= j)
    /\ (LoopOver => /\ Len(calls) = Len(args.outline)
                    /\ \A j \in 1..Len(calls) : calls[j].done)

\* a finished run of three sections whose first call failed
C3_Witness ==
    /\ pc = "returned"
    /\ Len(args.outline) = 3
    /\ Len(calls) = 3
    /\ calls[1].outcome.kind = "raise"
    /\ calls[2].done /\ calls[3].done

\* errors that reject the configuration: validate, build_llm_client's checks
\* of endpoint and token, generate_outline's check of the custom outline
ConfigurationError ==
    raised.cls = "ValueError" /\ raised.by \in {"validate", "build_llm_client", "generate_outline"}

NothingGenerated == calls = <<>> /\ frame.sections = <<>> /\ content = <<>>

\* C4: a command-line run that has ended has either raised a configuration
\* error with no section composed and no call of generate made, or returned
\* the complete document.
C4_AsStated ==
    unit = "cli" =>
        /\ (pc = "raised" => ConfigurationError /\ NothingGenerated)
        /\ (pc = "returned" => /\ Len(frame.sections) = Len(args.outline)
                               /\ Len(calls) = Len(args.outline)
                               /\ content # <<>>)

\* the part of C4 the code has: the rejections the claim lists happen, and
\* happen before any section is composed or any call of generate is made
ShouldReject ==
    \/ cfg.llm = "huggingface" /\ Falsy(cfg.llm_endpoint)
    \/ cfg.llm \in {"openai", "deepseek"} /\ Falsy(cfg.llm_token)
    \/ cfg.mode = "custom" /\ Falsy(cfg.outline)
    \/ cfg.llm_timeout <= 0
C4_RejectedBeforeGeneration ==
    unit = "cli" =>
        /\ (ShouldReject => pc \notin {"generate_review", "for", "generate", "write", "returned"})
        /\ (ShouldReject => NothingGenerated)
        /\ (ConfigurationError => NothingGenerated)

\* the heading of the template's references block: "## References" and one
\* newline, the references after it (a section's heading has two newlines)
ReferencesHeading == <<"##", " ", "References", "\n">>
HasReferencesBlock ==
    \E i \in 1..Len(content) :
        /\ i + Len(ReferencesHeading) <= Len(content)
        /\ SubSeq(content, i, i + Len(ReferencesHeading) - 1) = ReferencesHeading
        /\ content[i + Len(ReferencesHeading)] # "\n"

NoSources == args.sources = <<>> /\ args.source_names = <<>>

\* C7: a document composed with no sources has the notice, no references
\* block and no "[S" anywhere; a document composed with at least one source
\* has "[S1]" and does not have the notice.
C7_SourcesNotice ==
    content # <<>> =>
        IF NoSources
        THEN /\ Contains(content, NoSourcesNotice)
             /\ ~HasReferencesBlock
             /\ ~Contains(content, <<"[S">>)
        ELSE /\ Contains(content, <<"[S", "1", "]">>)
             /\ ~Contains(content, NoSourcesNotice)

\* a document of several sections composed with sources: markers, references
\* block, no notice
C7_Witness ==
    /\ pc = "returned"
    /\ Len(args.outline) > 1
    /\ ~NoSources
    /\ HasReferencesBlock
    /\ Contains(content, <<"[S", "1", "]">>)
    /\ ~Contains(content, NoSourcesNotice)

\* a document of several sections composed without sources: the notice only
C7_WitnessNoSources ==
    /\ pc = "returned"
    /\ Len(args.outline) > 1
    /\ NoSources
    /\ Contains(content, NoSourcesNotice)
    /\ ~HasReferencesBlock

-----------------------------------------------------------------------------
(* Claims about preprocess.py and utils.py, checked under SpecFunctions *)

\* the index of the first text of the call whose trimmed form is v
FirstAt(v) ==
    CHOOSE k \in 1..Len(fcall.texts) :
        /\ Trimmed(fcall.texts[k]) = v
        /\ \A m \in 1..(k - 1) : Trimmed(fcall.texts[m]) # v

\* C11: deduplicate of deduplicate's result is that result; the result has no
\* empty text and no text twice, holds exactly the distinct non-empty trimmed
\* texts of the input, and lists them in the order of their first occurrence.
C11_Deduplicate ==
    (unit = "deduplicate" /\ fret # <<>>) =>
        LET r == fret[1] IN
        /\ \A i \in 1..Len(r) : r[i] # <<>>
        /\ \A i, j \in 1..Len(r) : r[i] = r[j] => i = j
        /\ {r[i] : i \in 1..Len(r)}
              = {Trimmed(fcall.texts[k]) : k \in 1..Len(fcall.texts)} \ {<<>>}
        /\ \A i, j \in 1..Len(r) : i < j => FirstAt(r[i]) < FirstAt(r[j])
        /\ (Len(fret) = 2 => fret[2] = fret[1])

\* deduplicate has been called twice for " a", "b", "a\n": a text to trim, a
\* repeat to drop
C11_Witness ==
    /\ unit = "deduplicate"
    /\ fcall.texts = << <<" ", "a">>, <<"b">>, <<"a", "\n">> >>
    /\ Len(fret) = 2
    /\ fret[1] = << <<"a">>, <<"b">> >>

\* a sentence boundary of text s: a run of whitespace whose first character
\* follows a terminal character; k is the position of that first character
BoundaryAt(s, k) == k > 1 /\ s[k] \in Whitespace /\ s[k - 1] \in {".", "!", "?", "zh.fullstop"}
\* position k lies in the run of whitespace of a boundary
InBoundary(s, k) ==
    \E b \in 1..k : BoundaryAt(s, b) /\ \A m \in b..k : s[m] \in Whitespace
\* the sentences of s, by position: the maximal runs of positions outside the
\* boundaries, in order
SentenceStarts(s) ==
    {k \in 1..Len(s) : ~InBoundary(s, k) /\ (k = 1 \/ InBoundary(s, k - 1))}
SentenceFrom(s, k) ==
    LET stops == {e \in k..Len(s) : e = Len(s) \/ InBoundary(s, e + 1)}
        e == CHOOSE x \in stops : \A y \in stops : x <= y
    IN  SubSeq(s, k, e)
SentencesOf(s) ==
    LET starts == SentenceStarts(s)
        nth(i) == CHOOSE k \in starts : Cardinality({c \in starts : c < k}) = i - 1
    IN  [i \in 1..Cardinality(starts) |-> SentenceFrom(s, nth(i))]

\* chunks are the sentences sents, in order, grouped without a gap: cut after
\* the sentences numbered in cuts, each group joined by single spaces
RECURSIVE GroupsOf(_, _, _, _)
GroupsOf(sents, cuts, i, current) ==
    IF i > Len(sents) THEN (IF current = <<>> THEN <<>> ELSE <<Join(current, <<" ">>)>>)
    ELSE IF i \in cuts
         THEN <<Join(Append(current, sents[i]), <<" ">>)>> \o GroupsOf(sents, cuts, i + 1, <<>>)
         ELSE GroupsOf(sents, cuts, i + 1, Append(current, sents[i]))
SentencesWhole(text, chunks) ==
    LET sents == SentencesOf(text)
    IN  \E cuts \in SUBSET (1..(Len(sents) - 1)) : chunks = GroupsOf(sents, cuts, 1, <<>>)

SegmentTextReturned == unit = "segment_text" /\ fret # <<>>

\* C12 as stated: the chunks are the text's sentences, whole and in order,
\* each in exactly one chunk; and a text shorter than max_len, the empty text
\* included, gives exactly one chunk.
C12_AsStated ==
    SegmentTextReturned =>
        /\ SentencesWhole(fcall.text, fret[1])
        /\ (TextLen(fcall.text) < fcall.max_len => Len(fret[1]) = 1)

\* the part of C12 the code has: sentences are never cut, and a non-empty text
\* shorter than max_len gives one chunk
C12_SentencesWhole ==
    SegmentTextReturned =>
        /\ SentencesWhole(fcall.text, fret[1])
        /\ (fcall.text # <<>> /\ TextLen(fcall.text) < fcall.max_len => Len(fret[1]) = 1)

C12_SentencesWitness ==
    /\ SegmentTextReturned
    /\ fcall.text = <<"a", ".", " ", "a", ".", " ">>
    /\ fcall.max_len = 3
    /\ fret[1] = << <<"a", ".">>, <<"a", ".">> >>

\* the chunk holds one sentence: it has no sentence boundary inside
HoldsOneSentence(chunk) == \A k \in 1..Len(chunk) : ~BoundaryAt(chunk, k)

\* C13 as stated: for max_len >= 1 a chunk has at most max_len characters
\* unless it is a single sentence that alone is longer than max_len.
C13_AsStated ==
    (SegmentTextReturned /\ fcall.max_len >= 1) =>
        \A c \in 1..Len(fret[1]) :
            TextLen(fret[1][c]) <= fcall.max_len \/ HoldsOneSentence(fret[1][c])

\* what the code bounds instead: the characters of a chunk's sentences, the
\* joining spaces not counted
C13_SentenceCharsBounded ==
    (SegmentTextReturned /\ fcall.max_len >= 1) =>
        \A c \in 1..Len(fret[1]) :
            \/ HoldsOneSentence(fret[1][c])
            \/ TextLen(Flatten(SentencesOf(fret[1][c]))) <= fcall.max_len

\* the files a list of path specifiers names that can be read, in specifier
\* order: matched, regular, and read without an error
RECURSIVE ReadableOf(_)
ReadableOf(names) ==
    IF names = <<>> THEN <<>>
    ELSE (IF is_file(Head(names)) /\ read_text(Head(names)).raised = None
          THEN <<Head(names)>> ELSE <<>>) \o ReadableOf(Tail(names))
ReadableMatched(ps) == ReadableOf(Flatten([i \in 1..Len(ps) |-> Glob(ps[i])]))

LoadTextsReturned == unit = "load_texts" /\ fret # <<>>

\* C14 as stated: load_texts raises nothing whatever the specifiers name, and
\* returns one item for every readable matched file, in specifier order.
C14_AsStated ==
    LoadTextsReturned =>
        /\ fret[1].raised = None
        /\ [i \in 1..Len(fret[1].items) |-> fret[1].items[i][1]] = ReadableMatched(fcall.paths)

\* the part of C14 the code has: specifiers that match nothing, directories
\* and files whose reading raises an OSError are skipped
C14_OSErrorsSkipped ==
    (LoadTextsReturned /\ \A i \in 1..Len(fcall.paths) : fcall.paths[i] # "bin.dat") =>
        /\ fret[1].raised = None
        /\ [i \in 1..Len(fret[1].items) |-> fret[1].items[i][1]] = ReadableMatched(fcall.paths)

C14_SkippedWitness ==
    /\ LoadTextsReturned
    /\ fcall.paths = <<"locked.txt", "a.txt">>
    /\ fret[1].raised = None
    /\ Len(fret[1].items) = 1

\* the words of a text: its maximal runs of tokens that are not whitespace
WordsOf(s) ==
    LET spaced == [i \in 1..Len(s) |-> IF s[i] \in Whitespace THEN " " ELSE s[i]]
    IN  SelectSeq(SplitOn(spaced, " "), LAMBDA w : w # <<>>)

WrapReturned == unit = "wrap_paragraph" /\ fret # <<>>

\* C15 as stated: the wrapped paragraph has the paragraph's words, none of
\* them split over two lines (a word longer than 90 characters included), and
\* every line of more than one word has at most 90 characters.
C15_AsStated ==
    WrapReturned =>
        LET lines == SplitOn(fret[1], "\n") IN
        /\ WordsOf(fret[1]) = WordsOf(fcall.text)
        /\ \A i \in 1..Len(lines) :
              Len(WordsOf(lines[i])) > 1 => TextLen(lines[i]) <= WrapWidth

\* the part of C15 the code has: no line is longer than 90 characters, and a
\* word is cut only after a hyphen or when it is longer than 90 characters
C15_LinesBounded ==
    WrapReturned =>
        LET lines == SplitOn(fret[1], "\n") IN
        /\ \A i \in 1..Len(lines) : TextLen(lines[i]) <= WrapWidth
        /\ Flatten(WordsOf(fret[1])) = Flatten(WordsOf(fcall.text))

C15_LinesWitness ==
    /\ WrapReturned
    /\ Len(SplitOn(fret[1], "\n")) = 2
    /\ WordsOf(fret[1]) = WordsOf(fcall.text)

-----------------------------------------------------------------------------
(* Claims about the assembled document, checked under Spec *)

\* the lines of the document
DocLines == SplitOn(content, "\n")
IsHeadingLine(l) == Len(l) >= 2 /\ l[1] = "##" /\ l[2] = " "
IsBulletLine(l) == Len(l) >= 2 /\ l[1] = "-" /\ l[2] = " "

\* the lines of L that head a composed section: a heading followed by a blank
\* line (the heading of the references block is followed by a reference)
SectionHeads(L) ==
    {h \in 1..(Len(L) - 1) : IsHeadingLine(L[h]) /\ L[h + 1] = <<>>}
NthHead(H, n) == CHOOSE h \in H : Cardinality({g \in H : g < h}) = n - 1

\* where the part of the document after the sections starts: the references
\* block or the notice
TailStart(L) ==
    LET tails == {t \in 1..Len(L) :
                    \/ L[t] = NoSourcesNotice
                    \/ /\ L[t] = <<"##", " ", "References">>
                       /\ t < Len(L) /\ L[t + 1] # <<>>}
    IN  IF tails = {} THEN Len(L) + 1
        ELSE CHOOSE t \in tails : \A u \in tails : t <= u

\* the section headed at line h is a heading, a blank line, exactly three
\* bullet lines, a blank line, one paragraph (lines without a blank line
\* among them), and nothing else up to the next section or the tail
WellFormedSection(L, H, T, h) ==
    LET nexts == {g \in H : g > h} \cup {T}
        stop == CHOOSE g \in nexts : \A u \in nexts : g <= u
        body == {e \in (h + 6)..(stop - 1) : L[e] # <<>>}
    IN  /\ h + 6 < stop
        /\ \A b \in (h + 2)..(h + 4) : IsBulletLine(L[b])
        /\ L[h + 5] = <<>>
        /\ L[h + 6] # <<>>
        /\ \A e \in body : /\ ~IsBulletLine(L[e]) /\ ~IsHeadingLine(L[e])
                           /\ \A m \in (h + 6)..e : m \in body

\* C16: the document has exactly k composed sections for an outline of k
\* titles, the i-th headed "## " and the i-th title and holding three bullet
\* lines and one paragraph, in outline order, whatever the calls of generate
\* did.
C16_Sections ==
    content # <<>> =>
        LET L == DocLines
            H == SectionHeads(L)
            T == TailStart(L)
        IN  /\ Cardinality(H) = Len(args.outline)
            /\ \A n \in 1..Len(args.outline) :
                  /\ L[NthHead(H, n)] = <<"##", " ">> \o args.outline[n]
                  /\ WellFormedSection(L, H, T, NthHead(H, n))

\* a document of three sections, the call for one of them having raised and
\* the call for another having returned nothing
C16_Witness ==
    /\ pc = "returned"
    /\ Len(args.outline) = 3
    /\ Cardinality(SectionHeads(DocLines)) = 3
    /\ \E i, j \in 1..Len(calls) :
          calls[i].outcome.kind = "raise" /\ calls[j].outcome = Returns(<<>>)

\* the keywords the extractor yields for the run's sources
Extracted == extract_keywords(args.sources)
PastPlanning == unit = "cli" /\ pc \in {"for", "generate", "write", "returned"}

\* C17 as stated: in a command-line run without caller keywords whose sources
\* yield keywords, the outline planned for a built-in mode has the keyword
\* section of the extracted keywords, and the bullets and paragraphs are given
\* the extracted keywords; with caller keywords, those are used throughout.
C17_AsStated ==
    PastPlanning =>
        IF cfg.keywords = <<>>
        THEN Extracted # <<>> =>
               /\ frame.all_keywords = Extracted
               /\ cfg.mode # "custom" =>
                    \E i \in 1..Len(args.outline) :
                        args.outline[i] = ExpectedKeywordTitle(Extracted)
        ELSE /\ frame.all_keywords = cfg.keywords
             /\ cfg.mode # "custom" =>
                  \E i \in 1..Len(args.outline) :
                      args.outline[i] = ExpectedKeywordTitle(cfg.keywords)

\* the part of C17 the code has: bullets and paragraphs are given the caller's
\* keywords, or the extracted ones when the caller gave none; the outline is
\* planned from the caller's keywords alone
C17_SectionKeywords ==
    PastPlanning =>
        /\ frame.all_keywords = (IF cfg.keywords = <<>> THEN Extracted ELSE cfg.keywords)
        /\ (cfg.mode # "custom" /\ cfg.keywords = <<>>) => Len(args.outline) = 8

C17_SectionKeywordsWitness ==
    /\ PastPlanning
    /\ cfg.keywords = <<>>
    /\ Len(Extracted) = 5
    /\ frame.all_keywords = Extracted

\* the number of mapped sources, and the document name of the j-th
MappedSources ==
    IF args.source_names # <<>> THEN Len(args.source_names) ELSE Len(args.sources)
IsDocumentName(j, name) ==
    IF args.source_names # <<>> THEN IsFinalComponent(args.source_names[j], name)
    ELSE name = <<"Source_", Digit(j)>>

\* the first bullet of the n-th section ends with the label
CarriesLabel(L, H, n, label) ==
    LET bullet == L[NthHead(H, n) + 2]
    IN  /\ Len(bullet) > Len(label)
        /\ SubSeq(bullet, Len(bullet) - Len(label), Len(bullet)) = <<" ">> \o label

\* the label is listed in the references block with a document name of the run
Referenced(L, T, j) ==
    \E t \in (T + 1)..Len(L) :
        /\ Len(L[t]) >= 4
        /\ SubSeq(L[t], 1, 4) = ExpectedLabel(j) \o <<" ">>
        /\ IsDocumentName(j, SubSeq(L[t], 5, Len(L[t])))

\* C18: with n >= 1 mapped sources the section at outline position i (from 0)
\* carries [S((i mod n)+1)] in its first bullet, a label listed in the
\* references with its document name; with no source no section carries a
\* label; with at least n sections every label is carried by some section.
C18_SectionLabels ==
    content # <<>> =>
        LET L == DocLines
            H == SectionHeads(L)
            T == TailStart(L)
            n == MappedSources
            k == Len(args.outline)
        IN  /\ Cardinality(H) = k
            /\ IF n >= 1
               THEN /\ \A i \in 0..(k - 1) :
                          /\ CarriesLabel(L, H, i + 1, ExpectedLabel((i % n) + 1))
                          /\ Referenced(L, T, (i % n) + 1)
                    /\ k >= n =>
                          \A j \in 1..n : \E i \in 1..k : CarriesLabel(L, H, i, ExpectedLabel(j))
               ELSE \A b \in 1..(T - 1) : ~Contains(L[b], <<"[S">>)

\* a document of three sections and two sources: the third section carries
\* the first label again
C18_Witness ==
    /\ pc = "returned"
    /\ MappedSources = 2
    /\ Len(args.outline) = 3
    /\ LET L == DocLines
           H == SectionHeads(L)
       IN  /\ Cardinality(H) = 3
           /\ CarriesLabel(L, H, 3, ExpectedLabel(1))
           /\ CarriesLabel(L, H, 2, ExpectedLabel(2))
           /\ Referenced(L, TailStart(L), 2)

=============================================================================
